---- MODULE Spec2Model ----
(***************************************************************************)
(* The audio pipeline of oshu: the stream decoder (audio/stream.c), the    *)
(* filter graph and the SDL fill callback (audio/pipeline.c), and the      *)
(* open / play / pause / close lifecycle run by the game thread.           *)
(*                                                                         *)
(* Two threads: the game thread (gpc) and SDL's audio thread (cpc).  The   *)
(* libav and SDL calls the code makes are modelled by their documented     *)
(* return codes, at the call sites.                                        *)
(***************************************************************************)
EXTENDS Integers, Naturals, Sequences, FiniteSets, TLC

VARIABLES
    handle,     \* the caller's struct oshu_audio *: "NULL" or "ctx"
    audio,      \* the struct oshu_audio the handle points to
    dev,        \* SDL's device: "closed", "paused" or "playing"
    gpc,        \* position of the game thread
    cpc,        \* position of the audio thread in audio_callback
    buffer,     \* the device buffer handed to the running/last callback
    open_rc,    \* what oshu_audio_open returned: "none", "running", "ok" or "fail"
    allocs,     \* per resource, how many times it was allocated
    frees,      \* per resource, how many times it was released
    obs,        \* what the model remembers of the calls made so far
    aborted     \* a failed assert() has killed the process

vars == <<handle, audio, dev, gpc, cpc, buffer, open_rc, allocs, frees, obs,
          aborted>>

----------------------------------------------------------------------------
\* Bounds of the model.

\* packets in the container
MaxPackets == 3
\* largest best_effort_timestamp a frame carries
MaxTs == 2
\* frames a codec may hold back until it is flushed
MaxDelay == 1
\* the failed requests of a source are counted up to this number; the code
\* only tests whether the count is positive
MaxFailed == 2

----------------------------------------------------------------------------
\* Program constants.

sample_buffer_size == 1024
\* AVERROR(EAGAIN)
EAGAIN == -11
\* AVERROR_EOF, FFERRTAG('E','O','F',' ')
AVERROR_EOF == -541478725
\* any other negative AVERROR
AVERROR_OTHER == -22
\* bytes of one AUDIO_F32 sample
F32Bytes == 4
\* SDL's silence value for AUDIO_F32
F32Silence == 0

Resources ==
    {"ctx", "demuxer", "decoder", "frame", "device", "graph", "output",
     "music_params", "effect_params"}

\* nb_samples a decoded frame may carry
FrameSizes == {sample_buffer_size \div 2, sample_buffer_size}

Frames == [ts : 0..MaxTs, n : FrameSizes]

NoFrame == [ts |-> 0, n |-> 0]

Min(a, b) == IF a < b THEN a ELSE b

----------------------------------------------------------------------------
\* struct oshu_stream, audio/stream.c

\* calloc'ed struct oshu_stream: every pointer NULL.
\*   left     packets the demuxer has not read yet
\*   pending  frames the decoder holds, oldest first
\*   draining the flush packet was sent
\*   delay    frames the codec keeps until flushed
\*   cur      content of stream->frame
\*   err      which libav call failed last in oshu_next_frame: "packet" for
\*            av_read_frame or avcodec_send_packet, "decoder" for
\*            avcodec_receive_frame, "none" when the last call went well
ZeroStream ==
    [demuxer |-> FALSE, decoder |-> FALSE, frame |-> FALSE,
     left |-> 0, pending |-> <<>>, draining |-> FALSE, delay |-> 0,
     cur |-> NoFrame, channels |-> 0, sample_rate |-> 0,
     sample_fmt |-> "none", time_base |-> 0, err |-> "none"]

\* avcodec_receive_frame(stream->decoder, stream->frame): the possible
\* [rc, s] outcomes.  A frame comes out once the codec holds more than its
\* delay, or while draining; a drained decoder answers AVERROR_EOF for good.
avcodec_receive_frame(s) ==
    IF Len(s.pending) > s.delay \/ (s.draining /\ s.pending # <<>>)
    THEN {[rc |-> 0,
           s |-> [s EXCEPT !.cur = Head(s.pending), !.pending = Tail(@),
                           !.err = "none"]],
          [rc |-> AVERROR_OTHER,
           s |-> [s EXCEPT !.pending = Tail(@), !.err = "decoder"]]}
    ELSE IF s.draining
    THEN {[rc |-> AVERROR_EOF, s |-> [s EXCEPT !.err = "none"]]}
    ELSE {[rc |-> EAGAIN, s |-> [s EXCEPT !.err = "none"]]}

RECURSIVE next_page(_)

\* next_page that resets the decoder at the end of the container
\* (avcodec_flush_buffers) instead of sending it the flush packet: what the
\* decoder still held is gone.
next_page_resets_decoder(s) ==
    IF s.left = 0
    THEN IF s.draining
         THEN {[rc |-> -1, s |-> [s EXCEPT !.err = "packet"]]}
         ELSE {[rc |-> 0, s |-> [s EXCEPT !.draining = TRUE,
                                          !.pending = <<>>]]}
    ELSE LET t == [s EXCEPT !.left = @ - 1]
         IN  {[rc |-> -1, s |-> [t EXCEPT !.err = "packet"]]}
             \cup {[rc |-> 0, s |-> [t EXCEPT !.pending = Append(@, f)]] :
                      f \in Frames}
             \cup next_page(t)

\* next_page: read packets until one of the audio stream was sent to the
\* decoder; at the end of the container send the flush packet.  A read or
\* send error, and a second flush packet, give -1.
next_page(s) ==
    IF s.left = 0
    THEN IF s.draining
         THEN {[rc |-> -1, s |-> [s EXCEPT !.err = "packet"]]}
         ELSE {[rc |-> 0, s |-> [s EXCEPT !.draining = TRUE]]}
    ELSE LET t == [s EXCEPT !.left = @ - 1]
         IN  {[rc |-> -1, s |-> [t EXCEPT !.err = "packet"]]}
             \cup {[rc |-> 0, s |-> [t EXCEPT !.pending = Append(@, f)]] :
                      f \in Frames}
             \cup next_page(t)

RECURSIVE oshu_next_frame(_)

\* oshu_next_frame with its loop turned around: a page is read before the
\* decoder is asked for a frame.
oshu_next_frame_page_first(s) ==
    UNION {
        IF p.rc < 0 THEN {[rc |-> -1, s |-> p.s]}
        ELSE UNION {
            IF r.rc = 0 THEN {[rc |-> 0, s |-> r.s]}
            ELSE IF r.rc = EAGAIN THEN oshu_next_frame(r.s)
            ELSE IF r.rc = AVERROR_EOF THEN {[rc |-> AVERROR_EOF, s |-> r.s]}
            ELSE {[rc |-> -1, s |-> r.s]}
          : r \in avcodec_receive_frame(p.s) }
      : p \in next_page(s) }

\* oshu_next_frame: ask the decoder for a frame, feeding it pages while it
\* answers EAGAIN.  [rc, s] with rc 0, -1 or AVERROR_EOF.
oshu_next_frame(s) ==
    UNION {
        IF r.rc = 0 THEN {[rc |-> 0, s |-> r.s]}
        ELSE IF r.rc = EAGAIN
        THEN UNION { IF p.rc < 0
                     THEN {[rc |-> -1, s |-> p.s]}
                     ELSE oshu_next_frame(p.s) : p \in next_page(r.s) }
        ELSE IF r.rc = AVERROR_EOF THEN {[rc |-> AVERROR_EOF, s |-> r.s]}
        ELSE {[rc |-> -1, s |-> r.s]}
      : r \in avcodec_receive_frame(s) }

\* oshu_close_stream releasing through copies of the pointers, which leaves
\* the stream's own pointers as they were.
oshu_close_stream_keeps_pointers(s) ==
    [s |-> s,
     rel |-> (IF s.frame THEN <<"frame">> ELSE <<>>)
             \o (IF s.decoder THEN <<"decoder">> ELSE <<>>)
             \o (IF s.demuxer THEN <<"demuxer">> ELSE <<>>)]

\* oshu_close_stream that releases the container before the decoder and
\* the frame
oshu_close_stream_container_first(s) ==
    [s |-> [ZeroStream EXCEPT !.time_base = s.time_base],
     rel |-> (IF s.demuxer THEN <<"demuxer">> ELSE <<>>)
             \o (IF s.decoder THEN <<"decoder">> ELSE <<>>)
             \o (IF s.frame THEN <<"frame">> ELSE <<>>)]

\* oshu_close_stream: release what is there, frame first, then the decoder,
\* then the container; av_frame_free, avcodec_free_context and
\* avformat_close_input reset the pointer they are given.  rel lists what
\* was released, in order.
oshu_close_stream(s) ==
    [s |-> [ZeroStream EXCEPT !.time_base = s.time_base],
     rel |-> (IF s.frame THEN <<"frame">> ELSE <<>>)
             \o (IF s.decoder THEN <<"decoder">> ELSE <<>>)
             \o (IF s.demuxer THEN <<"demuxer">> ELSE <<>>)]

\* stream->time_base = av_q2d(stream->stream->time_base), in model units
TimeBases == {3}

\* channels of the decoder
Channels == {1, 2}

\* open_demuxer: [rc, s, got]; got is what was allocated.
open_demuxer(s) ==
    {[rc |-> -1, s |-> s, got |-> {}],
     [rc |-> -1, s |-> [s EXCEPT !.demuxer = TRUE], got |-> {"demuxer"}]}
    \cup {[rc |-> 0,
           s |-> [s EXCEPT !.demuxer = TRUE, !.left = n, !.time_base = tb],
           got |-> {"demuxer"}] : n \in 0..MaxPackets, tb \in TimeBases}

\* what the decoder of a source produces: mono 44100 Hz 16 bit integers, or
\* stereo 48000 Hz planar floats
SourceFormats ==
    {[channels |-> c,
      sample_rate |-> IF c = 1 THEN 44100 ELSE 48000,
      sample_fmt |-> IF c = 1 THEN "s16" ELSE "fltp"] : c \in Channels}

\* open_decoder: the decoder context is allocated first; the frame last.
open_decoder(s) ==
    {[rc |-> -1, s |-> [s EXCEPT !.decoder = TRUE], got |-> {"decoder"}]}
    \cup {[rc |-> 0,
           s |-> [s EXCEPT !.decoder = TRUE, !.frame = TRUE,
                           !.delay = d, !.channels = f.channels,
                           !.sample_rate = f.sample_rate,
                           !.sample_fmt = f.sample_fmt],
           got |-> {"decoder", "frame"}]
          : d \in 0..MaxDelay, f \in SourceFormats}

\* oshu_open_stream that gives up on an error of the first oshu_next_frame
\* only, and takes an end of stream for a success
oshu_open_stream_accepts_eof(s) ==
    LET fail(t, got) ==
            LET c == oshu_close_stream(t)
            IN  [rc |-> -1, s |-> c.s, got |-> got, rel |-> c.rel]
    IN  UNION {
          IF d.rc < 0 THEN {fail(d.s, d.got)}
          ELSE UNION {
            IF c.rc < 0 THEN {fail(c.s, d.got \cup c.got)}
            ELSE { IF f.rc = -1
                   THEN fail(f.s, d.got \cup c.got)
                   ELSE [rc |-> 0, s |-> f.s, got |-> d.got \cup c.got,
                         rel |-> <<>>]
                   : f \in oshu_next_frame(c.s) }
            : c \in open_decoder(d.s) }
          : d \in open_demuxer(s) }

\* oshu_open_stream: demuxer, decoder, then a first frame; any failure
\* closes the stream.  [rc, s, got, rel].
oshu_open_stream(s) ==
    LET fail(t, got) ==
            LET c == oshu_close_stream(t)
            IN  [rc |-> -1, s |-> c.s, got |-> got, rel |-> c.rel]
    IN  UNION {
          IF d.rc < 0 THEN {fail(d.s, d.got)}
          ELSE UNION {
            IF c.rc < 0 THEN {fail(c.s, d.got \cup c.got)}
            ELSE { IF f.rc < 0
                   THEN fail(f.s, d.got \cup c.got)
                   ELSE [rc |-> 0, s |-> f.s, got |-> d.got \cup c.got,
                         rel |-> <<>>]
                   : f \in oshu_next_frame(c.s) }
            : c \in open_decoder(d.s) }
          : d \in open_demuxer(s) }

----------------------------------------------------------------------------
\* struct oshu_pipeline and struct oshu_audio, audio/pipeline.c

\* an abuffer source: queued frames, end marker seen, failed requests
ZeroSrc == [q |-> <<>>, eof |-> FALSE, failed |-> 0]

\* AVBufferSrcParameters as av_buffersrc_parameters_alloc returns it: no
\* field assigned
ZeroParams ==
    [format |-> "none", channel_layout |-> 0, sample_rate |-> 0,
     time_base |-> "none"]

\*   graph   avfilter_graph_alloc'ed
\*   ready   avfilter_graph_config succeeded
\*   output  p->output allocated
\*   sbuf    samples the sink holds that do not fill a frame yet
\*   sink    format of the frames the sink hands out
\*   effect_params  what create_graph assigned to the effect source's block
\*   freed_write    a parameter block was written after its av_free
ZeroPipeline ==
    [graph |-> FALSE, ready |-> FALSE, output |-> FALSE,
     music |-> ZeroSrc, effect |-> ZeroSrc, sbuf |-> 0,
     sink |-> [freq |-> 0, channels |-> 0, format |-> "none"],
     effect_params |-> ZeroParams, freed_write |-> FALSE]

\* SDL_AudioSpec
ZeroSpec ==
    [freq |-> 0, format |-> "none", channels |-> 0, samples |-> 0,
     size |-> 0, silence |-> 0]

\* calloc(1, sizeof(**audio)); overlay is 0 for NULL, or the sample in the
\* slot
ZeroAudio ==
    [source |-> ZeroStream, pipeline |-> ZeroPipeline, device_id |-> 0,
     device_spec |-> ZeroSpec, current_timestamp |-> 0, finished |-> FALSE,
     overlay |-> 0]

\* av_buffersrc_write_frame(src, frame); fp is <<>> for a NULL frame and
\* <<f>> for a frame.  A NULL frame is the end marker.  Every write resets
\* the failed requests.  A frame after the end marker, or without memory,
\* is refused.
av_buffersrc_write_frame(src, fp) ==
    IF fp = <<>>
    THEN {[rc |-> 0, src |-> [src EXCEPT !.eof = TRUE, !.failed = 0]]}
    ELSE IF src.eof
    THEN {[rc |-> AVERROR_OTHER, src |-> [src EXCEPT !.failed = 0]]}
    ELSE {[rc |-> 0,
           src |-> [src EXCEPT !.q = Append(@, fp[1]), !.failed = 0]],
          [rc |-> AVERROR_OTHER, src |-> [src EXCEPT !.failed = 0]]}

\* av_buffersink_get_frame(p->sink, p->output) on the graph
\* music, effect -> amix (inputs=2:duration=first) -> aformat -> sink, with
\* the sink's frame size set to sample_buffer_size.  [rc, p, nb]: nb is the
\* nb_samples of the frame put in p->output.
\*  - the sink hands out a frame as soon as it holds sample_buffer_size
\*    samples, and a shorter last frame when its input has ended;
\*  - the mixer needs a frame of the music; without one the music source
\*    counts a failed request, or ends the output if it saw the end marker;
\*  - the mixer then needs the effect input to have samples or to have ended;
\*    otherwise the effect source counts a failed request.
RECURSIVE av_buffersink_get_frame(_)

\* the sink of a graph whose mixer was set up with duration=shortest: the
\* output ends as soon as one of the inputs has.
av_buffersink_get_frame_shortest(p) ==
    IF p.sbuf >= sample_buffer_size
    THEN [rc |-> 0, nb |-> sample_buffer_size,
          p |-> [p EXCEPT !.sbuf = @ - sample_buffer_size]]
    ELSE IF (p.music.q = <<>> /\ p.music.eof)
            \/ (p.effect.q = <<>> /\ p.effect.eof)
    THEN IF p.sbuf > 0
         THEN [rc |-> 0, nb |-> p.sbuf, p |-> [p EXCEPT !.sbuf = 0]]
         ELSE [rc |-> AVERROR_EOF, nb |-> 0, p |-> p]
    ELSE IF p.music.q = <<>>
    THEN [rc |-> EAGAIN, nb |-> 0,
          p |-> [p EXCEPT !.music.failed = Min(@ + 1, MaxFailed)]]
    ELSE IF p.effect.q = <<>>
    THEN [rc |-> EAGAIN, nb |-> 0,
          p |-> [p EXCEPT !.effect.failed = Min(@ + 1, MaxFailed)]]
    ELSE av_buffersink_get_frame(
             [p EXCEPT !.sbuf = @ + Head(p.music.q).n,
                       !.music.q = Tail(@),
                       !.effect.q = Tail(@)])

av_buffersink_get_frame(p) ==
    IF p.sbuf >= sample_buffer_size
    THEN [rc |-> 0, nb |-> sample_buffer_size,
          p |-> [p EXCEPT !.sbuf = @ - sample_buffer_size]]
    ELSE IF p.music.q = <<>>
    THEN IF p.music.eof
         THEN IF p.sbuf > 0
              THEN [rc |-> 0, nb |-> p.sbuf, p |-> [p EXCEPT !.sbuf = 0]]
              ELSE [rc |-> AVERROR_EOF, nb |-> 0, p |-> p]
         ELSE [rc |-> EAGAIN, nb |-> 0,
               p |-> [p EXCEPT !.music.failed = Min(@ + 1, MaxFailed)]]
    ELSE IF p.effect.q = <<>> /\ ~p.effect.eof
    THEN [rc |-> EAGAIN, nb |-> 0,
          p |-> [p EXCEPT !.effect.failed = Min(@ + 1, MaxFailed)]]
    ELSE av_buffersink_get_frame(
             [p EXCEPT !.sbuf = @ + Head(p.music.q).n,
                       !.music.q = Tail(@),
                       !.effect.q = IF @ = <<>> THEN @ ELSE Tail(@)])

\* next_frame as it was before the graph took the end marker: the end of
\* the stream sets finished at once.
next_frame_marks_finished(a) ==
    UNION {
      IF r.rc < 0
      THEN {[a |-> [a EXCEPT !.source = r.s, !.finished = TRUE],
             abort |-> FALSE, called |-> TRUE, rc |-> r.rc, pushed |-> 0]}
      ELSE {[a |-> [a EXCEPT !.source = r.s, !.pipeline.music = w.src,
                             !.current_timestamp =
                                 IF w.rc = 0 /\ r.s.cur.ts > 0
                                 THEN r.s.time_base * r.s.cur.ts
                                 ELSE @],
             abort |-> w.rc # 0, called |-> TRUE, rc |-> r.rc,
             pushed |-> IF w.rc = 0 THEN r.s.cur.n ELSE 0]
            : w \in av_buffersrc_write_frame(a.pipeline.music, <<r.s.cur>>)}
      : r \in oshu_next_frame(a.source) }

\* next_frame: decode a frame and hand it, or the end marker, to the music
\* source; a positive timestamp moves the clock.  [a, abort, called, rc,
\* pushed]: abort is a failed assert (rc == 0), rc is what oshu_next_frame
\* returned, pushed the samples that went into the music source.
next_frame(a) ==
    UNION {
      IF r.rc < 0
      THEN {[a |-> [a EXCEPT !.source = r.s, !.pipeline.music = w.src],
             abort |-> w.rc # 0, called |-> TRUE, rc |-> r.rc, pushed |-> 0]
            : w \in av_buffersrc_write_frame(a.pipeline.music, <<>>)}
      ELSE {[a |-> [a EXCEPT !.source = r.s, !.pipeline.music = w.src,
                             !.current_timestamp =
                                 IF w.rc = 0 /\ r.s.cur.ts > 0
                                 THEN r.s.time_base * r.s.cur.ts
                                 ELSE @],
             abort |-> w.rc # 0, called |-> TRUE, rc |-> r.rc,
             pushed |-> IF w.rc = 0 THEN r.s.cur.n ELSE 0]
            : w \in av_buffersrc_write_frame(a.pipeline.music, <<r.s.cur>>)}
      : r \in oshu_next_frame(a.source) }

\* the effect half of feed: a pending overlay is taken out of the slot (the
\* write of its frame is commented out), otherwise the effect source gets
\* the end marker.
feed_effect(a) ==
    IF a.pipeline.effect.failed > 0
    THEN IF a.overlay # 0
         THEN [a EXCEPT !.overlay = 0]
         ELSE LET w == CHOOSE x \in
                          av_buffersrc_write_frame(a.pipeline.effect, <<>>) :
                          TRUE
              IN  [a EXCEPT !.pipeline.effect = w.src]
    ELSE a

\* feed that decodes without asking whether the music source has failed a
\* request
feed_always_decodes(a) ==
    {IF x.abort THEN x ELSE [x EXCEPT !.a = feed_effect(x.a)]
       : x \in next_frame(a)}

\* feed: [a, abort, called, rc, pushed]
feed(a) ==
    LET first == IF a.pipeline.music.failed > 0
                 THEN next_frame(a)
                 ELSE {[a |-> a, abort |-> FALSE, called |-> FALSE, rc |-> 0,
                        pushed |-> 0]}
    IN  {IF x.abort THEN x ELSE [x EXCEPT !.a = feed_effect(x.a)] : x \in first}

\* The device buffer: len bytes, of which the first n were written by the
\* callback, all with byte c (kind "set") or with the src bytes of the sink's
\* frame (kind "copy"); the bytes behind them still hold rest, what was in the
\* buffer when SDL handed it over.
NewBuffer(len, rest) ==
    [len |-> len, n |-> 0, kind |-> "none", c |-> 0, rest |-> rest, src |-> 0]

\* memset(s, c, n): the first n bytes become (unsigned char) c
memset(buf, c, n) ==
    [buf EXCEPT !.kind = "set", !.c = c % 256, !.n = n]

\* memcpy(dest, src, n) from a source of srcsize bytes
memcpy(buf, srcsize, n) ==
    [buf EXCEPT !.kind = "copy", !.c = 0, !.n = n, !.src = srcsize]

\* the silence the callback falls through to, line 107
audio_callback_silence(a, buf) ==
    memset(buf, buf.len, a.device_spec.silence)

\* bytes of a packed float frame of nb samples per channel
FrameBytes(a, nb) == nb * a.device_spec.channels * F32Bytes

\* audio_callback, one evaluation of the while condition and of the loop
\* body: [a, buf, ret, abort, called, rc, pushed, sink].  ret: the callback has
\* returned; sink: what av_buffersink_get_frame answered (0 when it was not
\* called).  The sink may fail with another error at any call.
audio_callback(a, buf) ==
    IF a.finished
    THEN {[a |-> a, buf |-> audio_callback_silence(a, buf), ret |-> TRUE,
           abort |-> FALSE, called |-> FALSE, rc |-> 0, pushed |-> 0,
           sink |-> 0]}
    ELSE LET g == av_buffersink_get_frame(a.pipeline)
             b == [a EXCEPT !.pipeline = g.p]
         IN  (IF g.rc = EAGAIN
              THEN {[a |-> x.a, buf |-> buf, ret |-> FALSE, abort |-> x.abort,
                     called |-> x.called, rc |-> x.rc, pushed |-> x.pushed,
                     sink |-> g.rc]
                    : x \in feed(b)}
              ELSE IF g.rc = AVERROR_EOF
              THEN {[a |-> [b EXCEPT !.finished = TRUE],
                     buf |-> audio_callback_silence(b, buf), ret |-> TRUE,
                     abort |-> FALSE, called |-> FALSE, rc |-> 0,
                     pushed |-> 0, sink |-> g.rc]}
              ELSE {[a |-> b, buf |-> memcpy(buf, FrameBytes(b, g.nb), buf.len),
                     ret |-> TRUE, abort |-> FALSE, called |-> FALSE,
                     rc |-> 0, pushed |-> 0, sink |-> g.rc]})
             \cup
             {[a |-> a, buf |-> audio_callback_silence(a, buf), ret |-> TRUE,
               abort |-> FALSE, called |-> FALSE, rc |-> 0, pushed |-> 0,
               sink |-> AVERROR_OTHER]}

\* bytes of one sample of an SDL audio format
SDL_AUDIO_BYTESIZE(format) == IF format = "AUDIO_F32" THEN F32Bytes ELSE 2

\* the specs a device may be opened with when SDL is allowed to change what
\* was asked for
DeviceSpecs ==
    [freq : {44100, 48000}, format : {"AUDIO_S16", "AUDIO_F32"},
     channels : Channels]

\* SDL_OpenAudioDevice(NULL, 0, &want, &obtained, allowed_changes): the
\* obtained specs, none when the device cannot be opened.  With
\* allowed_changes 0 the obtained spec is the wanted one (SDL converts
\* behind it); size and silence are computed by SDL.  The device comes up
\* paused.
SDL_OpenAudioDevice(want, allowed_changes) ==
    LET full(sp) ==
            [freq |-> sp.freq, format |-> sp.format,
             channels |-> sp.channels, samples |-> want.samples,
             size |-> want.samples * sp.channels
                         * SDL_AUDIO_BYTESIZE(sp.format),
             silence |-> F32Silence]
    IN  IF allowed_changes = 0
        THEN {full(want)}
        ELSE {full(sp) : sp \in DeviceSpecs}

\* the spec open_device asks for
WantedSpec(a) ==
    [freq |-> a.source.sample_rate, format |-> "AUDIO_F32",
     channels |-> a.source.channels,
     samples |-> sample_buffer_size * a.source.channels]

\* open_device that also starts the device, SDL_PauseAudioDevice(id, 0)
open_device_unpaused(a) ==
    {[rc |-> -1, a |-> a, dev |-> "closed"]}
    \cup {[rc |-> 0,
           a |-> [a EXCEPT !.device_id = 1, !.device_spec = got],
           dev |-> "playing"] : got \in SDL_OpenAudioDevice(WantedSpec(a), 0)}

\* open_device that lets SDL change the spec, SDL_AUDIO_ALLOW_ANY_CHANGE
open_device_allow_changes(a) ==
    {[rc |-> -1, a |-> a, dev |-> "closed"]}
    \cup {[rc |-> 0,
           a |-> [a EXCEPT !.device_id = 1, !.device_spec = got],
           dev |-> "paused"] : got \in SDL_OpenAudioDevice(WantedSpec(a), 1)}

\* open_device: ask for the decoder's rate and channels, float samples and
\* sample_buffer_size * channels samples, and allow no change.  [rc, a, dev]
open_device(a) ==
    {[rc |-> -1, a |-> a, dev |-> "closed"]}
    \cup {[rc |-> 0,
           a |-> [a EXCEPT !.device_id = 1, !.device_spec = got],
           dev |-> "paused"] : got \in SDL_OpenAudioDevice(WantedSpec(a), 0)}

\* AV_CH_LAYOUT_STEREO, as a number of channels
AV_CH_LAYOUT_STEREO == 2

\* create_graph, lines 158 to 163: the fields assigned to effect_params
\* before av_buffersrc_parameters_set reads the block.  Line 161 assigns
\* the time base to music_params, so the effect block's is not assigned.
EffectParams(a) ==
    [ZeroParams EXCEPT !.format = "flt",
                       !.channel_layout = AV_CH_LAYOUT_STEREO,
                       !.sample_rate = a.device_spec.freq]

\* create_graph: [rc, a, got, rel, abort]; got and rel are the allocations
\* and releases made on the way.  The exits are the goto fail of line 150
\* (music_params not freed yet), of line 153, of line 165 (effect_params not
\* freed yet), of lines 168 to 208, and the return 0.  The sink hands out
\* what the mixer makes of the music source (the decoder's rate and channel
\* layout, lines 145 to 148), converted to packed floats by the converter
\* (sample_fmts=flt, line 185).  Line 161 writes music_params->time_base
\* after the av_free(music_params) of line 151: the write is undefined; it
\* either goes unnoticed (freed_write records that it was made) or stops
\* the process there.
create_graph(a) ==
    LET g == [a EXCEPT !.pipeline.graph = TRUE]
        e == [g EXCEPT !.pipeline.effect_params = EffectParams(a),
                       !.pipeline.freed_write = TRUE]
    IN  {[rc |-> -1, a |-> g, got |-> {"graph", "music_params"},
          rel |-> <<>>, abort |-> FALSE],
         [rc |-> -1, a |-> g, got |-> {"graph", "music_params"},
          rel |-> <<"music_params">>, abort |-> FALSE],
         [rc |-> -1, a |-> e,
          got |-> {"graph", "music_params", "effect_params"},
          rel |-> <<"music_params">>, abort |-> TRUE],
         [rc |-> -1, a |-> e,
          got |-> {"graph", "music_params", "effect_params"},
          rel |-> <<"music_params">>, abort |-> FALSE],
         [rc |-> -1, a |-> e,
          got |-> {"graph", "music_params", "effect_params"},
          rel |-> <<"music_params", "effect_params">>, abort |-> FALSE],
         [rc |-> 0,
          a |-> [e EXCEPT !.pipeline.ready = TRUE, !.pipeline.output = TRUE,
                          !.pipeline.sink =
                              [freq |-> a.source.sample_rate,
                               channels |-> a.source.channels,
                               format |-> "flt"]],
          got |-> {"graph", "music_params", "effect_params", "output"},
          rel |-> <<"music_params", "effect_params">>, abort |-> FALSE]}

\* counting allocations and releases
Count(seq, r) == Cardinality({i \in 1..Len(seq) : seq[i] = r})

Allocate(got) == [r \in Resources |-> allocs[r] + (IF r \in got THEN 1 ELSE 0)]

Release(rel) == [r \in Resources |-> frees[r] + Count(rel, r)]

----------------------------------------------------------------------------
\* Initial state: no context, device closed, nothing allocated.

\* What the model remembers of the calls made so far:
\*   called  the last step called oshu_next_frame, and rc is what it returned
\*   sink    what av_buffersink_get_frame answered last (0 when not called)
\*   ended   oshu_next_frame has returned a negative code
\*   eof     oshu_next_frame has returned AVERROR_EOF
\*   after   oshu_next_frame was called after it had returned AVERROR_EOF
\*   pushed  samples handed to the music source so far
\*   copied  callbacks that copied a frame of the sink so far
\*   delivered  samples of the frames the sink has handed out so far
\*   played  oshu_audio_play was called
\*   closed  the last call of oshu_close_stream: done, there was one; again,
\*           there had been one before it; had, the resources the stream
\*           held; rel, what was released, in order
NoObs ==
    [called |-> FALSE, rc |-> 0, sink |-> 0, ended |-> FALSE, eof |-> FALSE,
     after |-> FALSE, pushed |-> 0, copied |-> 0, delivered |-> 0,
     played |-> FALSE,
     closed |-> [done |-> FALSE, again |-> FALSE, had |-> {}, rel |-> <<>>]]

\* the resources a stream holds
StreamPointers(s) == {r \in {"frame", "decoder", "demuxer"} : s[r]}

\* obs after a call of oshu_close_stream on a stream that held had and
\* released rel
Closed(o, had, rel) ==
    [o EXCEPT !.closed = [done |-> TRUE, again |-> o.closed.done,
                          had |-> had, rel |-> rel]]

\* obs after a call of oshu_next_frame that returned rc
Called(o, rc) ==
    [o EXCEPT !.called = TRUE, !.rc = rc,
              !.ended = @ \/ rc < 0,
              !.eof = @ \/ rc = AVERROR_EOF,
              !.after = @ \/ o.eof]

Init ==
    /\ handle = "NULL"
    /\ audio = ZeroAudio
    /\ dev = "closed"
    /\ gpc = "idle"
    /\ cpc = "idle"
    /\ buffer = NewBuffer(0, 0)
    /\ open_rc = "none"
    /\ allocs = [r \in Resources |-> 0]
    /\ frees = [r \in Resources |-> 0]
    /\ obs = NoObs
    /\ aborted = FALSE

----------------------------------------------------------------------------
\* The game thread.

\* oshu_audio_open, line 225: calloc
OpenAlloc ==
    /\ ~aborted /\ gpc = "idle" /\ open_rc = "none" /\ handle = "NULL"
    /\ \/ /\ handle' = "ctx"
          /\ audio' = ZeroAudio
          /\ allocs' = Allocate({"ctx"})
          /\ gpc' = "open_stream"
          /\ open_rc' = "running"
       \/ /\ open_rc' = "fail"
          /\ UNCHANGED <<handle, audio, allocs, gpc>>
    /\ UNCHANGED <<dev, cpc, buffer, frees, obs, aborted>>

\* oshu_audio_open that sets the clock from the frame oshu_open_stream has
\* decoded
OpenStream_sets_clock ==
    /\ ~aborted /\ gpc = "open_stream"
    /\ \E o \in oshu_open_stream(audio.source) :
          /\ audio' = [audio EXCEPT !.source = o.s,
                                    !.current_timestamp =
                                        o.s.time_base * o.s.cur.ts]
          /\ allocs' = Allocate(o.got)
          /\ frees' = Release(o.rel)
          /\ gpc' = IF o.rc < 0 THEN "close" ELSE "open_device"
          /\ obs' = IF o.rc < 0 THEN Closed(obs, o.got, o.rel) ELSE obs
    /\ UNCHANGED <<handle, dev, cpc, buffer, open_rc, aborted>>

\* oshu_audio_open, line 230
OpenStream ==
    /\ ~aborted /\ gpc = "open_stream"
    /\ \E o \in oshu_open_stream(audio.source) :
          /\ audio' = [audio EXCEPT !.source = o.s]
          /\ allocs' = Allocate(o.got)
          /\ frees' = Release(o.rel)
          /\ gpc' = IF o.rc < 0 THEN "close" ELSE "open_device"
          /\ obs' = IF o.rc < 0 THEN Closed(obs, o.got, o.rel) ELSE obs
    /\ UNCHANGED <<handle, dev, cpc, buffer, open_rc, aborted>>

\* oshu_audio_open, line 232
OpenDevice ==
    /\ ~aborted /\ gpc = "open_device"
    /\ \E o \in open_device(audio) :
          /\ audio' = o.a
          /\ dev' = o.dev
          /\ allocs' = Allocate(IF o.rc < 0 THEN {} ELSE {"device"})
          /\ gpc' = IF o.rc < 0 THEN "close" ELSE "create_graph"
    /\ UNCHANGED <<handle, cpc, buffer, open_rc, frees, obs, aborted>>

\* oshu_audio_open that starts the device once the graph is built
CreateGraph_then_play ==
    /\ ~aborted /\ gpc = "create_graph"
    /\ \E o \in create_graph(audio) :
          /\ audio' = o.a
          /\ allocs' = Allocate(o.got)
          /\ frees' = Release(o.rel)
          /\ aborted' = o.abort
          /\ gpc' = IF o.abort THEN gpc
                    ELSE IF o.rc < 0 THEN "close" ELSE "idle"
          /\ open_rc' = IF o.rc < 0 THEN open_rc ELSE "ok"
          /\ dev' = IF o.rc < 0 THEN dev ELSE "playing"
    /\ UNCHANGED <<handle, cpc, buffer, obs>>

\* oshu_audio_open, lines 234 to 237
CreateGraph ==
    /\ ~aborted /\ gpc = "create_graph"
    /\ \E o \in create_graph(audio) :
          /\ audio' = o.a
          /\ allocs' = Allocate(o.got)
          /\ frees' = Release(o.rel)
          /\ aborted' = o.abort
          /\ gpc' = IF o.abort THEN gpc
                    ELSE IF o.rc < 0 THEN "close" ELSE "idle"
          /\ open_rc' = IF o.rc < 0 THEN open_rc ELSE "ok"
    /\ UNCHANGED <<handle, dev, cpc, buffer, obs>>

\* the game calls oshu_audio_close(&audio)
CloseCall ==
    /\ ~aborted /\ gpc = "idle" /\ open_rc # "none"
    /\ gpc' = "close"
    /\ UNCHANGED <<handle, audio, dev, cpc, buffer, open_rc, allocs, frees,
                   obs, aborted>>

\* oshu_audio_close, lines 255 to 258: nothing to do for a NULL handle;
\* SDL_CloseAudioDevice returns once the running callback has returned, and
\* no callback runs after it.
CloseDevice ==
    /\ ~aborted /\ gpc = "close"
    /\ IF handle = "NULL"
       THEN /\ gpc' = "idle"
            /\ UNCHANGED <<dev, frees>>
       ELSE IF audio.device_id # 0
       THEN /\ cpc = "idle"
            /\ dev' = "closed"
            /\ frees' = Release(<<"device">>)
            /\ gpc' = "close_stream"
       ELSE /\ gpc' = "close_stream"
            /\ UNCHANGED <<dev, frees>>
    /\ UNCHANGED <<handle, audio, cpc, buffer, open_rc, allocs, obs,
                   aborted>>

\* oshu_audio_close, line 259
CloseStream ==
    /\ ~aborted /\ gpc = "close_stream"
    /\ LET c == oshu_close_stream(audio.source)
       IN  /\ audio' = [audio EXCEPT !.source = c.s]
           /\ frees' = Release(c.rel)
           /\ obs' = Closed(obs, StreamPointers(audio.source), c.rel)
    /\ gpc' = "close_free"
    /\ UNCHANGED <<handle, dev, cpc, buffer, open_rc, allocs, aborted>>

\* oshu_audio_close without its last line, *audio = NULL
CloseFree_keeps_handle ==
    /\ ~aborted /\ gpc = "close_free"
    /\ frees' = Release(<<"ctx">>)
    /\ audio' = ZeroAudio
    /\ gpc' = "idle"
    /\ open_rc' = IF open_rc = "running" THEN "fail" ELSE open_rc
    /\ UNCHANGED <<handle, dev, cpc, buffer, allocs, obs, aborted>>

\* oshu_audio_close, lines 260 and 261: free the context, reset the handle.
\* What the freed context held is gone with it.
CloseFree ==
    /\ ~aborted /\ gpc = "close_free"
    /\ frees' = Release(<<"ctx">>)
    /\ audio' = ZeroAudio
    /\ handle' = "NULL"
    /\ gpc' = "idle"
    /\ open_rc' = IF open_rc = "running" THEN "fail" ELSE open_rc
    /\ UNCHANGED <<dev, cpc, buffer, allocs, obs, aborted>>

\* oshu_audio_play
Play ==
    /\ ~aborted /\ gpc = "idle" /\ handle = "ctx" /\ dev = "paused"
    /\ dev' = "playing"
    /\ obs' = [obs EXCEPT !.played = TRUE]
    /\ UNCHANGED <<handle, audio, gpc, cpc, buffer, open_rc, allocs, frees,
                   aborted>>

\* oshu_audio_pause that also throws away what the decoder and the sink
\* hold, as a seek would
Pause_flushes ==
    /\ ~aborted /\ gpc = "idle" /\ handle = "ctx" /\ dev = "playing"
    /\ dev' = "paused"
    /\ audio' = [audio EXCEPT !.source.pending = <<>>, !.pipeline.sbuf = 0]
    /\ UNCHANGED <<handle, gpc, cpc, buffer, open_rc, allocs, frees, obs,
                   aborted>>

\* oshu_audio_pause
Pause ==
    /\ ~aborted /\ gpc = "idle" /\ handle = "ctx" /\ dev = "playing"
    /\ dev' = "paused"
    /\ UNCHANGED <<handle, audio, gpc, cpc, buffer, open_rc, allocs, frees,
                   obs, aborted>>

\* the samples the game may ask for
Samples == {1, 2}

\* The game asks for an effect that takes the slot whatever it holds.
PlaySample_overwrites ==
    /\ ~aborted /\ gpc = "idle" /\ handle = "ctx" /\ open_rc = "ok"
    /\ \E smp \in Samples : audio' = [audio EXCEPT !.overlay = smp]
    /\ UNCHANGED <<handle, dev, gpc, cpc, buffer, open_rc, allocs, frees, obs,
                   aborted>>

\* The game asks for an effect: it goes into the one slot, and is dropped
\* when the slot is taken.
PlaySample ==
    /\ ~aborted /\ gpc = "idle" /\ handle = "ctx" /\ open_rc = "ok"
    /\ \E smp \in Samples :
          audio' = IF audio.overlay # 0
                   THEN audio
                   ELSE [audio EXCEPT !.overlay = smp]
    /\ UNCHANGED <<handle, dev, gpc, cpc, buffer, open_rc, allocs, frees, obs,
                   aborted>>

----------------------------------------------------------------------------
\* SDL's audio thread.

\* what the buffer SDL hands over may still hold
StaleBytes == {F32Silence, 170}

\* SDL calls audio_callback(userdata, buffer, len) with len the size of the
\* device buffer, while the device is not paused.
CallbackEnter ==
    /\ ~aborted /\ dev = "playing" /\ cpc = "idle"
    /\ cpc' = "while"
    /\ \E g \in StaleBytes : buffer' = NewBuffer(audio.device_spec.size, g)
    /\ obs' = [obs EXCEPT !.called = FALSE, !.rc = 0, !.sink = 0]
    /\ UNCHANGED <<handle, audio, dev, gpc, open_rc, allocs, frees,
                   aborted>>

\* one turn of the while loop of audio_callback
CallbackStep ==
    /\ ~aborted /\ cpc = "while"
    /\ \E o \in audio_callback(audio, buffer) :
          /\ audio' = o.a
          /\ buffer' = o.buf
          /\ cpc' = IF o.ret THEN "idle" ELSE "while"
          /\ aborted' = o.abort
          /\ obs' = [(IF o.called
                       THEN Called(obs, o.rc)
                       ELSE [obs EXCEPT !.called = FALSE, !.rc = 0])
                         EXCEPT !.sink = o.sink,
                                !.pushed = @ + o.pushed,
                                !.copied = @ + (IF o.buf.kind = "copy"
                                                THEN 1 ELSE 0),
                                !.delivered =
                                    @ + (IF o.buf.kind = "copy"
                                         THEN o.buf.src \div FrameBytes(o.a, 1)
                                         ELSE 0)]
    /\ UNCHANGED <<handle, dev, gpc, open_rc, allocs, frees>>

Next ==
    \/ OpenAlloc
    \/ OpenStream
    \/ OpenDevice
    \/ CreateGraph
    \/ CloseCall
    \/ CloseDevice
    \/ CloseStream
    \/ CloseFree
    \/ Play
    \/ Pause
    \/ PlaySample
    \/ CallbackEnter
    \/ CallbackStep

Spec == Init /\ [][Next]_vars

----------------------------------------------------------------------------
\* The stream decoder on its own: a caller that opens a stream, asks for
\* frames for as long as it likes, and closes it.

StreamOpen ==
    /\ open_rc = "none"
    /\ \E o \in oshu_open_stream(audio.source) :
          /\ audio' = [audio EXCEPT !.source = o.s]
          /\ allocs' = Allocate(o.got)
          /\ frees' = Release(o.rel)
          /\ open_rc' = IF o.rc < 0 THEN "fail" ELSE "ok"
          /\ obs' = IF o.rc < 0 THEN Closed(obs, o.got, o.rel) ELSE obs
    /\ UNCHANGED <<handle, dev, gpc, cpc, buffer, aborted>>

StreamNext ==
    /\ open_rc = "ok" /\ audio.source.decoder
    /\ \E r \in oshu_next_frame(audio.source) :
          /\ audio' = [audio EXCEPT !.source = r.s]
          /\ obs' = Called(obs, r.rc)
    /\ UNCHANGED <<handle, dev, gpc, cpc, buffer, open_rc, allocs, frees,
                   aborted>>

StreamClose ==
    /\ open_rc # "none"
    /\ LET c == oshu_close_stream(audio.source)
       IN  /\ audio' = [audio EXCEPT !.source = c.s]
           /\ frees' = Release(c.rel)
           /\ obs' = Closed(obs, StreamPointers(audio.source), c.rel)
    /\ UNCHANGED <<handle, dev, gpc, cpc, buffer, open_rc, allocs,
                   aborted>>

StreamNextStep == StreamOpen \/ StreamNext \/ StreamClose

StreamSpec == Init /\ [][StreamNextStep]_vars

----------------------------------------------------------------------------
\* Properties.

\* byte i of the device buffer is the silence value
SilentAt(buf, i, silence) ==
    IF i <= buf.n
    THEN buf.kind = "set" /\ buf.c = silence
    ELSE buf.rest = silence

\* all len bytes of the device buffer are the silence value, and nothing
\* was written behind them.  The buffer is uniform before and behind byte n,
\* so its first and last byte decide.
AllSilent(buf, silence) ==
    /\ buf.n <= buf.len
    /\ buf.len > 0 => /\ SilentAt(buf, 1, silence)
                      /\ SilentAt(buf, buf.len, silence)

\* the smallest k with k * d >= n
CeilDiv(n, d) == (n + d - 1) \div d

\* a step of an opened context that stays open
OnContext == handle = "ctx" /\ handle' = "ctx"

\* C1: on an opened context current_timestamp never decreases while
\* finished is false, whatever timestamps the frames carry, and does not
\* change once finished is true.
C1_ClockNeverDecreases ==
    [][OnContext =>
          IF audio.finished
          THEN audio'.current_timestamp = audio.current_timestamp
          ELSE audio'.current_timestamp >= audio.current_timestamp]_vars

C3_SilenceWhenNothingCopied ==
    (handle = "ctx" /\ cpc = "idle" /\ buffer.kind = "set") =>
        AllSilent(buffer, audio.device_spec.silence)

\* C4: once oshu_next_frame has returned AVERROR_EOF on an open stream, a
\* later call returns AVERROR_EOF and leaves the stream as it was: nothing
\* is read from the container and nothing is sent to the decoder.
C4_EofIsTerminal ==
    [][(obs.eof /\ audio.source.decoder /\ audio'.source.decoder) =>
          /\ obs'.rc = AVERROR_EOF
          /\ audio'.source = audio.source]_vars

\* C4: oshu_next_frame was called again after AVERROR_EOF
C4_CalledAfterEof ==
    obs.after /\ obs.rc = AVERROR_EOF /\ audio.source.decoder

\* C5: when finished has become true, the callbacks that copied a frame are
\* as many as the frames of sample_buffer_size samples the samples given to
\* the graph make up, and a callback that has returned since has left only
\* silence in the device buffer.
C5_FinishedThenSilence ==
    (handle = "ctx" /\ audio.finished) =>
        /\ obs.copied = CeilDiv(obs.pushed, sample_buffer_size)
        /\ cpc = "idle" => AllSilent(buffer, audio.device_spec.silence)

\* a turn of the callback's loop in which the sink answered EAGAIN and feed
\* ran
FeedStep ==
    /\ cpc = "while"
    /\ obs'.sink = EAGAIN
    /\ \/ audio'.pipeline # audio.pipeline
       \/ audio.overlay # 0 /\ audio'.overlay = 0
       \/ aborted'

\* src has been given a frame or the end marker
Pushed(src, src2) ==
    Len(src2.q) > Len(src.q) \/ (src2.eof /\ ~src.eof)

\* C6: whenever the sink answers EAGAIN, the feed that follows pushes a
\* frame or an end marker to a source and the callback goes on.
C6_FeedMakesProgress ==
    [][FeedStep =>
          /\ ~aborted'
          /\ \/ Pushed(audio.pipeline.music, audio'.pipeline.music)
             \/ Pushed(audio.pipeline.effect, audio'.pipeline.effect)]_vars

\* C7: while the callback runs, the context is allocated and fully built,
\* its stream is open, and the game thread is neither inside
\* oshu_audio_open nor past the SDL_CloseAudioDevice of oshu_audio_close.
C7_CallbackOnLiveContext ==
    cpc = "while" =>
        /\ handle = "ctx"
        /\ frees["ctx"] < allocs["ctx"]
        /\ gpc \in {"idle", "close"}
        /\ open_rc = "ok"
        /\ audio.source.demuxer /\ audio.source.decoder /\ audio.source.frame
        /\ audio.pipeline.graph /\ audio.pipeline.ready
        /\ audio.pipeline.output

\* C7: oshu_audio_close is waiting for the running callback
C7_CloseWhileCallbackRuns ==
    cpc = "while" /\ gpc = "close"

\* what oshu_audio_open opens besides the graph
OpenedByOpen == {"ctx", "device", "frame", "decoder", "demuxer"}

\* C8: a failed oshu_audio_open leaves the handle NULL and has released
\* the context, the device and the stream's frame, decoder and container
\* once each if it had opened them; none is ever released more often than
\* it was allocated; and an open that returned 0 has opened them all.
C8_FailedOpenReleasesOnce ==
    /\ \A r \in OpenedByOpen : frees[r] <= allocs[r]
    /\ (open_rc = "fail" /\ gpc = "idle") =>
          /\ handle = "NULL"
          /\ \A r \in OpenedByOpen : frees[r] = allocs[r]
    /\ (open_rc = "ok" /\ gpc = "idle" /\ handle = "ctx") =>
          /\ \A r \in OpenedByOpen : allocs[r] = 1 /\ frees[r] = 0
          /\ audio.pipeline.ready

\* C8: open has failed after oshu_open_stream had closed a stream whose
\* frame was allocated
C8_FailedAfterStreamClosedItself ==
    /\ open_rc = "fail" /\ gpc = "idle"
    /\ allocs["frame"] = 1 /\ allocs["device"] = 0

\* C9: oshu_audio_close on a NULL handle returns without closing a device,
\* closing a stream or freeing anything, and an oshu_audio_close that frees
\* the context leaves the handle NULL.
C9_CloseIsIdempotent ==
    [][/\ (gpc = "close" /\ handle = "NULL") =>
              /\ gpc' = "idle"
              /\ UNCHANGED <<handle, audio, dev, allocs, frees, open_rc>>
       /\ (gpc = "close_free" /\ gpc' # "close_free") =>
              /\ handle' = "NULL"
              /\ gpc' = "idle"]_vars

\* C9: oshu_audio_close is called on a handle that an earlier close of an
\* opened context has reset
C9_SecondClose ==
    gpc = "close" /\ handle = "NULL" /\ frees["ctx"] = 1 /\ open_rc = "ok"

\* what create_graph allocates
GraphResources == {"graph", "output", "music_params", "effect_params"}

\* C10: once the context is closed, nothing create_graph allocated is still
\* allocated.
C10_GraphReleasedOnClose ==
    (handle = "NULL" /\ gpc = "idle") =>
        \A r \in GraphResources : frees[r] = allocs[r]

\* C11: a turn of the callback's loop never ends in a failed assert, and a
\* turn in which the sink answered an error ends the callback with all len
\* bytes of the device buffer at the silence value.
C11_FailureEndsInSilence ==
    [][cpc = "while" =>
          /\ ~aborted'
          /\ obs'.sink = AVERROR_OTHER =>
                /\ cpc' = "idle"
                /\ AllSilent(buffer', audio'.device_spec.silence)]_vars

\* a call of oshu_next_frame on an open stream, in the stream decoder on its
\* own
StreamNextTaken ==
    /\ audio.source.decoder /\ audio'.source.decoder
    /\ allocs' = allocs /\ frees' = frees /\ open_rc' = open_rc
    /\ <<audio, obs>>' # <<audio, obs>>

\* C12: oshu_next_frame returns an error only when the decoder has failed;
\* a packet that could not be read or sent is given up and the call goes on
\* with the next one.
C12_PacketErrorIsSkipped ==
    [][(StreamNextTaken /\ obs'.rc = -1) =>
          audio'.source.err = "decoder"]_vars

\* C13: a call of oshu_next_frame returns AVERROR_EOF only when the whole
\* container was read, the decoder was sent the flush packet and held no
\* frame; and a frame it returns is the oldest one the decoder held, which
\* leaves the others in their order.
C13_FlushReturnsBufferedFrames ==
    [][StreamNextTaken =>
          /\ obs'.rc = AVERROR_EOF =>
                /\ audio.source.pending = <<>>
                /\ audio'.source.left = 0
                /\ audio'.source.draining
          /\ (obs'.rc = 0 /\ audio.source.pending # <<>>) =>
                audio'.source.cur = Head(audio.source.pending)
          /\ (obs'.rc = 0 /\ audio.source.draining) =>
                audio'.source.pending = Tail(audio.source.pending)]_vars

\* C13: the last frame a codec held back was returned after the flush
C13_LastFrameAfterFlush ==
    /\ audio.source.decoder /\ audio.source.draining
    /\ audio.source.delay > 0 /\ audio.source.pending = <<>>
    /\ obs.called /\ obs.rc = 0 /\ audio.source.cur.n > 0

\* the SDL audio format that holds the samples of a libav sample format
SDLFormatOf(sample_fmt) ==
    CASE sample_fmt = "flt" -> "AUDIO_F32"
      [] sample_fmt = "s16" -> "AUDIO_S16"
      [] OTHER -> "none"

C15_OneEffectInFlight ==
    [][OnContext =>
          /\ audio.overlay # 0 => audio'.overlay \in {audio.overlay, 0}
          /\ Len(audio'.pipeline.effect.q) <= 1]_vars

\* C15: an effect waits in the slot while the callback runs and the game
\* is free to ask for another
C15_EffectPending ==
    /\ handle = "ctx" /\ gpc = "idle" /\ cpc = "while"
    /\ audio.overlay # 0 /\ audio.pipeline.effect.failed > 0

\* the music source has ended and the graph holds nothing of it any more
MusicDrained(p) == p.music.eof /\ p.music.q = <<>> /\ p.sbuf = 0

C17_OpenLeavesDevicePaused ==
    (handle = "ctx" /\ ~obs.played) =>
        /\ dev # "playing" /\ cpc = "idle"
        /\ (open_rc = "ok" /\ gpc = "idle") => dev = "paused"
        /\ ~audio.finished
        /\ ~obs.called /\ obs.pushed = 0 /\ obs.delivered = 0
        /\ audio.pipeline.music = ZeroSrc /\ audio.pipeline.effect = ZeroSrc

\* C17: open has succeeded, the game has asked for an effect since, and
\* oshu_audio_play was not called yet
C17_OpenedNotPlayed ==
    /\ handle = "ctx" /\ open_rc = "ok" /\ gpc = "idle"
    /\ ~obs.played /\ audio.overlay # 0

\* C18: a step that takes the device from paused to playing or back leaves
\* the context, the running callback and its buffer as they were; and while
\* the device of an opened context is paused and no callback runs, no
\* callback starts and the stream, the graph, current_timestamp and
\* finished do not change, so that playing again goes on from there.
C18_PlayPauseOnlyToggleDevice ==
    [][/\ ({dev, dev'} = {"paused", "playing"}) =>
              /\ audio' = audio
              /\ cpc' = cpc /\ buffer' = buffer
              /\ handle' = handle /\ allocs' = allocs /\ frees' = frees
       /\ (OnContext /\ open_rc = "ok" /\ dev = "paused" /\ cpc = "idle") =>
              /\ cpc' = "idle"
              /\ audio'.source = audio.source
              /\ audio'.pipeline = audio.pipeline
              /\ audio'.current_timestamp = audio.current_timestamp
              /\ audio'.finished = audio.finished]_vars

\* C18: the device was paused in the middle of the music, with frames
\* decoded and samples waiting in the sink
C18_PausedMidStream ==
    /\ handle = "ctx" /\ gpc = "idle" /\ dev = "paused" /\ cpc = "idle"
    /\ obs.played /\ obs.pushed > 0 /\ ~audio.finished
    /\ audio.pipeline.sbuf > 0

\* C19: current_timestamp is 0 as long as oshu_audio_play was not called,
\* and it leaves 0 only in a turn of the callback in which oshu_next_frame
\* returned a frame with a positive timestamp that went into the music
\* source, to become time_base times that timestamp.
C19_ClockZeroUntilStarted ==
    [][OnContext =>
          /\ ~obs'.played => audio'.current_timestamp = 0
          /\ (audio.current_timestamp = 0 /\ audio'.current_timestamp # 0) =>
                /\ cpc = "while" /\ obs.played
                /\ obs'.called /\ obs'.rc = 0
                /\ obs'.pushed > obs.pushed
                /\ audio'.source.cur.ts > 0
                /\ audio'.current_timestamp =
                       audio'.source.time_base * audio'.source.cur.ts]_vars

\* C19: open has decoded a first frame with a positive timestamp, and the
\* clock is 0
C19_FirstFrameDecodedClockZero ==
    /\ handle = "ctx" /\ open_rc = "ok" /\ gpc = "idle" /\ ~obs.played
    /\ audio.source.cur.ts > 0 /\ audio.current_timestamp = 0

\* the resources of had in the order frame, decoder, container
ReleaseOrder(had) ==
    SelectSeq(<<"frame", "decoder", "demuxer">>, LAMBDA r : r \in had)

\* C20: a call of oshu_close_stream releases the resources the stream
\* holds, each once, the frame first, then the decoder, then the container,
\* and leaves the three pointers NULL; a call on a stream that was closed
\* before releases nothing.
C20_CloseStreamReleasesWhatIsThere ==
    [][obs'.closed # obs.closed =>
          /\ obs'.closed.rel = ReleaseOrder(obs'.closed.had)
          /\ StreamPointers(audio'.source) = {}
          /\ \A r \in {"frame", "decoder", "demuxer"} :
                 /\ frees'[r] = frees[r] + Count(obs'.closed.rel, r)
                 /\ frees'[r] <= allocs'[r]
          /\ obs'.closed.again => obs'.closed.rel = <<>>]_vars

\* C20: oshu_close_stream has closed a stream whose decoder was allocated
\* and whose frame was not
C20_ClosedWithoutFrame ==
    /\ obs.closed.done
    /\ obs.closed.had = {"decoder", "demuxer"}
    /\ obs.closed.rel = <<"decoder", "demuxer">>

\* a turn of the callback in which feed ran and called next_frame
NextFrameCalled == FeedStep /\ obs'.called

C22_EffectLeavesSlotIntoGraph ==
    [][(OnContext /\ audio.overlay # 0 /\ audio'.overlay = 0) =>
          Len(audio'.pipeline.effect.q) > Len(audio.pipeline.effect.q)]_vars

\* C23: the device buffer of an opened context has the size of a sink frame
\* of sample_buffer_size samples, and a callback that copies a frame of the
\* sink copies no more bytes than that frame holds.
C23_CopyWithinSinkFrame ==
    (handle = "ctx" /\ open_rc = "ok") =>
        /\ audio.device_spec.size = FrameBytes(audio, sample_buffer_size)
        /\ buffer.kind = "copy" => buffer.n <= buffer.src

\* C24: the first frame that goes into the music source is the frame
\* oshu_open_stream has decoded, which the stream holds until then; and a
\* frame that goes into the music source goes behind those it holds.
C24_EveryFrameReachesGraph ==
    [][(OnContext /\ obs'.pushed > obs.pushed) =>
          /\ obs.pushed = 0 =>
                audio'.pipeline.music.q = <<audio.source.cur>>
          /\ Len(audio'.pipeline.music.q) = Len(audio.pipeline.music.q) + 1
          /\ SubSeq(audio'.pipeline.music.q, 1,
                    Len(audio.pipeline.music.q)) = audio.pipeline.music.q]_vars

\* C25: once create_graph has set the effect source's parameters, all four
\* of them come from the device spec (packed floats as the device's format,
\* the device's channels, the device's rate, a time base), and create_graph
\* has written to no parameter block that was already freed.
C25_EffectParamsFromDeviceSpec ==
    (handle = "ctx" /\ audio.pipeline.effect_params # ZeroParams) =>
        /\ SDLFormatOf(audio.pipeline.effect_params.format)
               = audio.device_spec.format
        /\ audio.pipeline.effect_params.channel_layout
               = audio.device_spec.channels
        /\ audio.pipeline.effect_params.sample_rate = audio.device_spec.freq
        /\ audio.pipeline.effect_params.time_base # "none"
        /\ ~audio.pipeline.freed_write

\* C26: when oshu_open_stream returns, either it succeeded, the stream
\* holds its container, its decoder and a frame, and a first frame has been
\* decoded into it, or it failed, the three pointers are NULL and everything
\* that was allocated has been released.
C26_OpenNeedsFirstFrame ==
    [][(open_rc = "none" /\ open_rc' # "none") =>
          IF open_rc' = "ok"
          THEN /\ StreamPointers(audio'.source)
                     = {"frame", "decoder", "demuxer"}
               /\ audio'.source.cur.n > 0
          ELSE /\ StreamPointers(audio'.source) = {}
               /\ \A r \in {"frame", "decoder", "demuxer"} :
                      frees'[r] = allocs'[r]]_vars

\* C26: oshu_open_stream has failed on its first oshu_next_frame, after the
\* container, the decoder and the frame were allocated
C26_OpenFailedOnFirstFrame ==
    /\ open_rc = "fail"
    /\ obs.closed.done /\ ~obs.closed.again
    /\ obs.closed.had = {"frame", "decoder", "demuxer"}
    /\ StreamPointers(audio.source) = {}

====
